---- MODULE Spec2Model ----
(***************************************************************************)
(* A model of stenc's SCSI encryption layer (src/scsiencrypt.h): the       *)
(* packed page layouts, the KAD walk read_page_kads, the SDE page builder  *)
(* make_sde, the SP-IN / SP-OUT commands and the sense data rendering.     *)
(*                                                                         *)
(* A buffer is a sequence of bytes; the byte at C offset o is buf[o + 1].  *)
(***************************************************************************)
EXTENDS Integers, Sequences, FiniteSets, TLC

VARIABLES
  pc,        \* position of the caller: idle, loop, done, crashed, sde_built, ...
  op,        \* the operation in progress: none, kads, sde, command, sense
  buf,       \* the page buffer the operation works on
  pageSize,  \* sizeof(Page) of the read_page_kads instantiation
  it,        \* read_page_kads: the cursor, as an offset from start
  end,       \* read_page_kads: the end pointer, as an offset from start
  v,         \* read_page_kads: the vector of kad references collected
  maxRead,   \* highest buffer offset the walk has dereferenced (-1: none)
  params,    \* make_sde: the arguments of the call
  decoded,   \* the fields read back from the SDE page through page_sde
  command,   \* the SP-IN / SP-OUT command being executed
  exchanges, \* how often the command was exchanged with the transport
  transport, \* what the transport reported for the exchange
  result,    \* how the command ended for its caller
  sense,     \* print_sense_data: the sense data to render
  rendering  \* print_sense_data: what was written to the stream

walkVars == <<pageSize, it, end, v, maxRead>>
sdeVars == <<params, decoded>>
cmdVars == <<command, exchanges, transport, result>>
senseVars == <<sense, rendering>>
vars == <<pc, op, buf, walkVars, sdeVars, cmdVars, senseVars>>

----------------------------------------------------------------------------
(* Bounds of the model *)

\* number of KAD records the device puts behind the fixed region
MaxKads == 2
\* largest descriptor length of a KAD record the device sends
MaxKadLen == 2
\* how far the declared page length and the buffer size range beyond the chain
MaxSlack == 2

\* longest key, next to the 32-byte key, given to make_sde
MaxKeyLen == 2
\* longest key name, next to "volume-key-1", given to make_sde
MaxNameLen == 2

----------------------------------------------------------------------------
(* Byte order and layouts *)

Bytes == 0..255

\* htons followed by the store: the two bytes of a 16-bit value as they lie
\* in the buffer (network order, most significant first)
htons(x) == <<(x % 65536) \div 256, x % 256>>

\* the load without ntohs on a little-endian host
ntohs_noswap(b0, b1) == b0 + 256 * b1

\* the load followed by ntohs: the value of the 16-bit field whose bytes in
\* the buffer are b0, b1
ntohs(b0, b1) == b0 * 256 + b1

\* sizeof(kad), sizeof(page_header)
sizeof_kad == 4
sizeof_page_header == 4
\* sizeof(page_des), sizeof(page_nbes)
sizeof_page_des == 24
sizeof_page_nbes == 16

\* offsetof(page_header, length), offsetof(kad, length)
offsetof_page_length == 2
offsetof_kad_length == 2

\* struct page_sde, packed: the offset of each member
offsetof_sde_control == 4
offsetof_sde_flags == 5
\* encryption_mode declared after decryption_mode
offsetof_sde_encryption_mode_swapped == 6 + 1
offsetof_sde_encryption_mode == 6
offsetof_sde_decryption_mode == 7
offsetof_sde_algorithm_index == 8
offsetof_sde_key_format == 9
offsetof_sde_kad_format == 10
offsetof_sde_reserved == 11
\* std::byte reserved[7]
sizeof_sde_reserved == 7
offsetof_sde_key_length == offsetof_sde_reserved + sizeof_sde_reserved
\* offsetof(page_sde, key), which is sizeof(page_sde)
sizeof_page_sde == offsetof_sde_key_length + 2

\* the bit positions of the sub-fields of page_sde::flags
flags_ceem_pos == 6
\* rdmc one bit too low
flags_rdmc_pos_low == 4 - 1
flags_rdmc_pos == 4
flags_sdk_pos == 3
flags_ckod_pos == 2
flags_ckorp_pos == 1
flags_ckorl_pos == 0

RECURSIVE BitAnd(_, _)
BitAnd(a, b) ==
  IF a = 0 \/ b = 0 THEN 0
  ELSE (a % 2) * (b % 2) + 2 * BitAnd(a \div 2, b \div 2)

RECURSIVE BitOr(_, _)
BitOr(a, b) ==
  IF a = 0 THEN b
  ELSE IF b = 0 THEN a
  ELSE (IF a % 2 = 1 \/ b % 2 = 1 THEN 1 ELSE 0)
         + 2 * BitOr(a \div 2, b \div 2)

\* x << n in a byte
Shl(x, n) == (x * 2 ^ n) % 256

flags_ceem_mask == Shl(3, flags_ceem_pos)
flags_rdmc_mask == Shl(3, flags_rdmc_pos)
flags_sdk_mask == Shl(1, flags_sdk_pos)
flags_ckod_mask == Shl(1, flags_ckod_pos)
flags_ckorp_mask == Shl(1, flags_ckorp_pos)
flags_ckorl_mask == Shl(1, flags_ckorl_pos)

\* enum class sde_rdmc
sde_rdmc_algorithm_default == Shl(0, flags_rdmc_pos)
sde_rdmc_enabled == Shl(2, flags_rdmc_pos)
sde_rdmc_disabled == Shl(3, flags_rdmc_pos)
sde_rdmc == {sde_rdmc_algorithm_default, sde_rdmc_enabled, sde_rdmc_disabled}

\* enum class encrypt_mode, decrypt_mode, kadf
encrypt_mode == {0, 1, 2}
decrypt_mode == {0, 1, 2, 3}
kadf == {0, 1, 2}

Zeros(n) == [i \in 1..n |-> 0]

Min(a, b) == IF a < b THEN a ELSE b
Max(a, b) == IF a > b THEN a ELSE b

RECURSIVE Concat(_)
Concat(ss) == IF ss = <<>> THEN <<>> ELSE Head(ss) \o Concat(Tail(ss))

\* the first n bytes of s, padded with zero bytes when s is shorter
Fit(s, n) == [i \in 1..n |-> IF i <= Len(s) THEN s[i] ELSE 0]

----------------------------------------------------------------------------
(* What a device can put into a page buffer *)

\* kad_type::ukad
kad_type_ukad == 0

\* n descriptor bytes
Descriptor(n) == [j \in 1..n |-> 170]

\* one KAD record on the wire: type, flags, length, descriptor
KadBytes(type, descriptor) ==
  <<type, 0>> \o htons(Len(descriptor)) \o descriptor

\* chains of at most MaxKads records, given by their descriptor lengths
Chains == UNION {[1..n -> 0..MaxKadLen] : n \in 0..MaxKads}

ChainBytes(chain) ==
  Concat([i \in 1..Len(chain) |->
            KadBytes(kad_type_ukad, Descriptor(chain[i]))])

MaxTail == MaxKads * (sizeof_kad + MaxKadLen)

\* the values of the page length field the device may declare for a page
\* whose fixed part is size bytes
DeclaredLengths(size) ==
  (size - sizeof_page_header - 1)..(size - sizeof_page_header + MaxTail + MaxSlack)

\* the buffer sizes: the page object itself is always there
BufferSizes(size) == size..(size + MaxTail + MaxSlack)

\* the buffer after the transfer: the page as the device sent it, cut to the
\* buffer's size; the buffer was zeroed before
DevicePage(size, declared, chain, bufSize) ==
  Fit(<<0, 0>>                       \* page code
        \o htons(declared) \o Zeros(size - sizeof_page_header)
        \o ChainBytes(chain), bufSize)

----------------------------------------------------------------------------
(* read_page_kads *)

\* a read outside the buffer is undefined: the values it may yield
UBBytes == {0, 255}

\* the values a read of the byte at offset o may yield
ByteAt(b, o) == IF o < Len(b) THEN {b[o + 1]} ELSE UBBytes

\* ntohs(page.length) + sizeof(page_header)
PageEnd(b) ==
  ntohs(b[offsetof_page_length + 1], b[offsetof_page_length + 2])
    + sizeof_page_header

\* the loop condition with <= for <
LoopCond_inclusive(i, e) == i <= e

\* while (it < end)
LoopCond(i, e) == i < e

\* the values ntohs(elem->length) may have for the kad at offset i
KadLengthRead(b, i) ==
  {ntohs(b0, b1) : b0 \in ByteAt(b, i + offsetof_kad_length),
                   b1 \in ByteAt(b, i + offsetof_kad_length + 1)}

\* the advance without the header's size
Advance_no_header(i, len) == i + len

\* it += ntohs(elem->length) + sizeof(kad)
Advance(i, len) == i + len + sizeof_kad

----------------------------------------------------------------------------
(* make_sde and the page_sde view of its result *)

NoParams == [enc_mode |-> 0, dec_mode |-> 0, algorithm_index |-> 0,
             key |-> <<>>, key_name |-> <<>>, kad_format |-> 0,
             rdmc |-> 0, ckod |-> FALSE]

NoDecoded == [encryption_mode |-> 0, decryption_mode |-> 0,
              algorithm_index |-> 0, key_length |-> 0, key |-> <<>>]

KeyOfLen(k) == [i \in 1..k |-> (37 * i + k) % 256]
NameOfLen(n) == [i \in 1..n |-> 64 + i]
\* "volume-key-1"
VolumeKey1 == <<118, 111, 108, 117, 109, 101, 45, 107, 101, 121, 45, 49>>

Keys == {KeyOfLen(k) : k \in 0..MaxKeyLen} \cup {KeyOfLen(32)}
KeyNames == {NameOfLen(n) : n \in 0..MaxNameLen} \cup {VolumeKey1}
AlgorithmIndexes == {0, 1, 255}

\* the flags byte of the page: the rdmc policy and the ckod bit OR-ed in
sde_flags(rdmc, ckod) == BitOr(rdmc, IF ckod THEN flags_ckod_mask ELSE 0)

\* the buffer make_sde returns
make_sde(enc_mode, dec_mode, algorithm_index, key, key_name, kad_format, rdmc, ckod) ==
  LET kadBytes == IF key_name = <<>> THEN <<>>
                  ELSE KadBytes(kad_type_ukad, key_name)
      body == <<0>>                       \* control
              \o <<sde_flags(rdmc, ckod)>>
              \o <<enc_mode, dec_mode, algorithm_index>>
              \o <<0>>                    \* key format
              \o <<kad_format>>
              \o Zeros(7)                 \* reserved
              \o htons(Len(key))
              \o key
              \o kadBytes
  IN  <<0, 16>> \o htons(Len(body)) \o body

\* key_length bytes of page.key
KeyBytes(b, n) == [i \in 1..n |-> b[sizeof_page_sde + i]]

\* the descriptor bytes of the kad r
DescriptorOf(b, r) == [i \in 1..r.length |-> b[r.off + sizeof_kad + i]]

\* the type of the kad r
TypeOf(b, r) == b[r.off + 1]

----------------------------------------------------------------------------
(* Sense data, scsi_error and the commands *)

\* struct sense_data, packed: the offsets of the members read
offsetof_sense_flags == 2
offsetof_sense_additional_sense_code == 12
offsetof_sense_additional_sense_qualifier == 13
sizeof_sense_data == 18

\* a sense key mask of three bits
flags_sense_key_mask_3bit == Shl(7, 0)

\* sense_data::flags_sense_key_mask
flags_sense_key_mask == Shl(15, 0)

\* the sense keys sense_data names
no_sense == 0
recovered_error == 1
not_ready == 2
medium_error == 3
hardware_error == 4
illegal_request == 5
unit_attention == 6
data_protect == 7
blank_check == 8

\* the fixed part of a sense buffer with these flags, ASC and ASCQ
SenseBuffer(flags, asc, ascq) ==
  [i \in 1..sizeof_sense_data |->
     CASE i = 1 -> 112
       [] i = offsetof_sense_flags + 1 -> flags
       [] i = offsetof_sense_additional_sense_code + 1 -> asc
       [] i = offsetof_sense_additional_sense_qualifier + 1 -> ascq
       [] OTHER -> 0]

SenseCodes == {<<0, 0>>, <<36, 0>>, <<36, 1>>, <<255, 255>>}

SenseBuffers ==
  {SenseBuffer(f, c[1], c[2]) : f \in Bytes, c \in SenseCodes}

\* the sense buffers a failed exchange leaves behind
CheckConditionSense ==
  {SenseBuffer(f, c[1], c[2]) : f \in {5, 6, 232}, c \in SenseCodes}

\* the scsi_error that loses its buffer
scsi_error_without_buffer(sense_buf) ==
  [what |-> "SCSI I/O error", sense_buf |-> <<>>]

\* scsi_error::scsi_error(std::unique_ptr<sense_buffer>&&)
scsi_error(sense_buf) == [what |-> "SCSI I/O error", sense_buf |-> sense_buf]

\* scsi_error::get_sense
get_sense(e) == e.sense_buf

Commands == {"get_des", "get_nbes", "get_dec", "write_sde"}

NoTransport == [status |-> "none", sense |-> <<>>]
NoResult == [kind |-> "none"]

HexDigit == <<"0", "1", "2", "3", "4", "5", "6", "7",
              "8", "9", "a", "b", "c", "d", "e", "f">>

\* a byte as two hexadecimal digits
Hex(n) == <<HexDigit[(n \div 16) + 1], HexDigit[(n % 16) + 1]>>

\* the sense key of the sense data: flags & flags_sense_key_mask
SenseKey(sd) == BitAnd(sd[offsetof_sense_flags + 1], flags_sense_key_mask)

\* the label of a sense key, "" when it has none
SenseKeyLabel(key) ==
  CASE key = no_sense -> "no sense"
    [] key = recovered_error -> "recovered error"
    [] key = not_ready -> "not ready"
    [] key = medium_error -> "medium error"
    [] key = hardware_error -> "hardware error"
    [] key = illegal_request -> "illegal request"
    [] key = unit_attention -> "unit attention"
    [] key = data_protect -> "data protect"
    [] key = blank_check -> "blank check"
    [] OTHER -> ""

\* what print_sense_data writes: the sense key by its label, or as a number
\* when it has none, then the ASC and ASCQ as numbers
print_sense_data(sd) ==
  LET key == SenseKey(sd)
  IN  [key |-> IF SenseKeyLabel(key) # "" THEN <<SenseKeyLabel(key)>>
               ELSE Hex(key),
       asc |-> Hex(sd[offsetof_sense_additional_sense_code + 1]),
       ascq |-> Hex(sd[offsetof_sense_additional_sense_qualifier + 1])]

NoRendering == [key |-> <<>>, asc |-> <<>>, ascq |-> <<>>]

Init ==
  /\ command = "none"
  /\ exchanges = 0
  /\ transport = NoTransport
  /\ result = NoResult
  /\ sense = <<>>
  /\ rendering = NoRendering
  /\ params = NoParams
  /\ decoded = NoDecoded
  /\ pc = "idle"
  /\ op = "none"
  /\ buf = <<>>
  /\ pageSize = 0
  /\ it = 0
  /\ end = 0
  /\ v = <<>>
  /\ maxRead = -1

\* read_page_kads(page) is entered: start, it and end are set up
ReadPageKads(size) ==
  /\ pc = "idle"
  /\ \E declared \in DeclaredLengths(size), chain \in Chains,
        bufSize \in BufferSizes(size) :
       buf' = DevicePage(size, declared, chain, bufSize)
  /\ op' = "kads"
  /\ pageSize' = size
  /\ it' = size
  /\ end' = PageEnd(buf')
  /\ v' = <<>>
  /\ maxRead' = -1
  /\ pc' = "loop"
  /\ UNCHANGED <<sdeVars, cmdVars, senseVars>>

\* make_sde is called and returns the page
MakeSde ==
  /\ pc = "idle"
  /\ \E e \in encrypt_mode, d \in decrypt_mode, a \in AlgorithmIndexes,
        k \in Keys, n \in KeyNames, f \in kadf, r \in sde_rdmc,
        c \in BOOLEAN :
       /\ params' = [enc_mode |-> e, dec_mode |-> d, algorithm_index |-> a,
                     key |-> k, key_name |-> n, kad_format |-> f,
                     rdmc |-> r, ckod |-> c]
       /\ buf' = make_sde(e, d, a, k, n, f, r, c)
  /\ op' = "sde"
  /\ pc' = "sde_built"
  /\ UNCHANGED <<walkVars, decoded, cmdVars, senseVars>>

\* the page is read back through the page_sde layout; the records behind
\* the key are walked as read_page_kads walks them, from key + key_length
DecodeSde ==
  /\ pc = "sde_built"
  /\ LET key_length == ntohs(buf[offsetof_sde_key_length + 1],
                             buf[offsetof_sde_key_length + 2])
     IN  /\ decoded' =
              [encryption_mode |-> buf[offsetof_sde_encryption_mode + 1],
               decryption_mode |-> buf[offsetof_sde_decryption_mode + 1],
               algorithm_index |-> buf[offsetof_sde_algorithm_index + 1],
               key_length |-> key_length,
               key |-> KeyBytes(buf, key_length)]
         /\ it' = sizeof_page_sde + key_length
  /\ pageSize' = sizeof_page_sde
  /\ end' = PageEnd(buf)
  /\ v' = <<>>
  /\ maxRead' = -1
  /\ pc' = "loop"
  /\ UNCHANGED <<op, buf, params, cmdVars, senseVars>>

\* one iteration of the loop: elem is dereferenced for its length
WalkStep ==
  /\ pc = "loop"
  /\ LoopCond(it, end)
  /\ maxRead' = Max(maxRead, it + offsetof_kad_length + 1)
  /\ \/ \E len \in KadLengthRead(buf, it) :
          /\ v' = Append(v, [off |-> it, length |-> len])
          /\ it' = Advance(it, len)
          /\ pc' = "loop"
     \/ /\ it + offsetof_kad_length + 1 >= Len(buf)
        /\ pc' = "crashed"
        /\ UNCHANGED <<v, it>>
  /\ UNCHANGED <<op, buf, pageSize, end, sdeVars, cmdVars, senseVars>>

\* the loop is left and v returned
WalkReturn ==
  /\ pc = "loop"
  /\ ~LoopCond(it, end)
  /\ pc' = "done"
  /\ UNCHANGED <<op, buf, walkVars, sdeVars, cmdVars, senseVars>>

\* get_des, get_nbes, get_dec or write_sde is called
CommandCall ==
  /\ pc = "idle"
  /\ \E c \in Commands : command' = c
  /\ op' = "command"
  /\ exchanges' = 0
  /\ pc' = "exchange"
  /\ UNCHANGED <<buf, walkVars, sdeVars, transport, result, senseVars>>

\* the transport carries the command to the device once and reports
TransportExchange ==
  /\ pc = "exchange"
  /\ exchanges' = exchanges + 1
  /\ \/ transport' = [status |-> "good", sense |-> <<>>]
     \/ \E sb \in CheckConditionSense :
          transport' = [status |-> "check_condition", sense |-> sb]
     \/ transport' = [status |-> "failed", sense |-> <<>>]
  /\ pc' = "exchanged"
  /\ UNCHANGED <<op, buf, walkVars, sdeVars, command, result, senseVars>>

\* the command returns or throws
CommandReturn ==
  /\ pc = "exchanged"
  /\ result' =
       CASE transport.status = "good" -> [kind |-> "success"]
         [] transport.status = "check_condition" ->
              [kind |-> "scsi_error", error |-> scsi_error(transport.sense)]
         [] OTHER -> [kind |-> "transport_error"]
  /\ pc' = "returned"
  /\ UNCHANGED <<op, buf, walkVars, sdeVars, command, exchanges, transport,
                 senseVars>>

\* a caller holds sense data to print
SenseGiven ==
  /\ pc = "idle"
  /\ \E sd \in SenseBuffers : sense' = sd
  /\ op' = "sense"
  /\ pc' = "sense_given"
  /\ UNCHANGED <<buf, walkVars, sdeVars, cmdVars, rendering>>

\* print_sense_data(os, sd)
PrintSenseData ==
  /\ pc = "sense_given"
  /\ rendering' = print_sense_data(sense)
  /\ pc' = "rendered"
  /\ UNCHANGED <<op, buf, walkVars, sdeVars, cmdVars, sense>>

Next ==
  \/ ReadPageKads(sizeof_page_des)
  \/ ReadPageKads(sizeof_page_nbes)
  \/ WalkStep
  \/ WalkReturn
  \/ MakeSde
  \/ DecodeSde
  \/ CommandCall
  \/ TransportExchange
  \/ CommandReturn
  \/ SenseGiven
  \/ PrintSenseData

Spec == Init /\ [][Next]_vars

\* a call that has started runs on: the loop takes its next iteration or
\* returns
LiveSpec == Spec /\ WF_vars(WalkStep) /\ WF_vars(WalkReturn)

----------------------------------------------------------------------------
(* The KAD walk: boundary *)

\* the walk's authority according to the specification:
\* min(4 + declared page length, actual buffer length)
Boundary == Min(end, Len(buf))

\* one past the last byte of the record v[i]
RecordEnd(r) == r.off + sizeof_kad + r.length

\* read_page_kads has no path that reports an error: this position is never
\* taken
FormatError == pc = "format_error"

WalkOver == pc \in {"done", "crashed", "format_error"}

\* C1: the KAD walk of a DES or NBES page never reads a record header byte
\* at or beyond min(4 + declared length, buffer length), and every record
\* it yields lies entirely inside that bound.
C1_WalkStaysInsideBoundary ==
  op = "kads" =>
    /\ maxRead < Boundary
    /\ \A i \in DOMAIN v : RecordEnd(v[i]) <= Boundary

\* every record but the last fits inside the page boundary, and the last
\* one ends exactly one byte past it (all of them read from the buffer)
LastOverrunsByOne ==
  /\ v # <<>>
  /\ maxRead < Len(buf)
  /\ \A i \in 1..(Len(v) - 1) : RecordEnd(v[i]) <= end
  /\ RecordEnd(v[Len(v)]) = end + 1

\* C2: when the last record of the chain ends one byte past the page
\* boundary, the walk reports a format error and the overrunning record is
\* not among the records returned.
C2_OverrunIsAFormatError ==
  (op = "kads" /\ WalkOver /\ it > end /\ LastOverrunsByOne) =>
    /\ FormatError
    /\ \A i \in DOMAIN v : RecordEnd(v[i]) <= end

\* C3: when the declared length plus the header exceeds the bytes present in
\* the buffer, the walk ends with a format error, yields no record and reads
\* nothing past the end of the buffer.
C3_DeclaredBeyondBufferIsAFormatError ==
  (op = "kads" /\ WalkOver /\ end > Len(buf)) =>
    /\ FormatError
    /\ v = <<>>
    /\ maxRead < Len(buf)

\* C7: for a page whose declared length equals sizeof(Page) - 4 the walk
\* returns the empty sequence, reads no record header and reports no error.
C7_NoTrailingRecords ==
  (op = "kads" /\ end = pageSize) =>
    /\ v = <<>>
    /\ maxRead = -1
    /\ pc \in {"loop", "done"}

C7_Witness == op = "kads" /\ end = pageSize /\ pc = "done"

\* the number of iterations the loop takes at most:
\* (declared length + 4 - sizeof(Page)) / 4, rounded up
MaxIterations == IF end <= pageSize THEN 0 ELSE (end - pageSize + 3) \div 4

C9_Sequence ==
  op = "kads" =>
    /\ Len(v) <= MaxIterations
    /\ v # <<>> => v[1].off = pageSize
    /\ \A i \in 1..(Len(v) - 1) :
         v[i + 1].off = v[i].off + sizeof_kad + v[i].length
    /\ pc \in {"loop", "done"} =>
         it = IF v = <<>> THEN pageSize ELSE RecordEnd(v[Len(v)])

C9_CursorIncreases ==
  (pc = "loop" /\ pc' = "loop") => it' >= it + sizeof_kad

\* C9: the KAD walk terminates: every iteration moves the cursor forward by
\* 4 + length >= 4, the loop takes at most MaxIterations iterations, the
\* first record starts at sizeof(Page) and each next one 4 + length bytes
\* after the one before.
C9_WalkTerminates ==
  /\ []C9_Sequence
  /\ [][C9_CursorIncreases]_vars
  /\ (pc = "loop") ~> (pc \in {"done", "crashed"})

C9_Witness ==
  op = "kads" /\ pc = "done" /\ Len(v) = 2 /\ v[2].length > 0

----------------------------------------------------------------------------
(* The SDE page *)

PageLength(b) ==
  ntohs(b[offsetof_page_length + 1], b[offsetof_page_length + 2])

\* C5: the length field of the page make_sde builds is the buffer size
\* minus 4: 16 + k without a key name, 16 + k + 4 + n with one (64 for a
\* 32-byte key and "volume-key-1"); behind the key lies exactly one KAD
\* record of type ukad and length n when a name is supplied, nothing
\* otherwise.
C5_SdeLengthAndKad ==
  op = "sde" =>
    LET k == Len(params.key)
        n == Len(params.key_name)
        fixed == sizeof_page_sde - sizeof_page_header
        kadAt == sizeof_page_sde + k
    IN  /\ PageLength(buf) = Len(buf) - sizeof_page_header
        /\ fixed = 16
        /\ n = 0 => /\ PageLength(buf) = fixed + k
                    /\ Len(buf) = kadAt
        /\ n > 0 =>
             /\ PageLength(buf) = fixed + k + sizeof_kad + n
             /\ Len(buf) = kadAt + sizeof_kad + n
             /\ buf[kadAt + 1] = kad_type_ukad
             /\ ntohs(buf[kadAt + offsetof_kad_length + 1],
                      buf[kadAt + offsetof_kad_length + 2]) = n
        /\ (k = 32 /\ params.key_name = VolumeKey1) => PageLength(buf) = 64

C5_Witness ==
  /\ op = "sde" /\ pc = "sde_built"
  /\ Len(params.key) = 32 /\ params.key_name = VolumeKey1
  /\ PageLength(buf) = 64

FlagsMasks == <<flags_ceem_mask, flags_rdmc_mask, flags_sdk_mask,
                flags_ckod_mask, flags_ckorp_mask, flags_ckorl_mask>>

RECURSIVE BitOrAll(_)
BitOrAll(ms) == IF ms = <<>> THEN 0 ELSE BitOr(Head(ms), BitOrAll(Tail(ms)))

\* C10: the sub-fields of the SDE flags byte are pairwise disjoint and cover
\* the byte, every sde_rdmc value lies inside the rdmc mask, and the flags
\* byte with an rdmc policy and a ckod flag OR-ed in gives back exactly that
\* policy and that bit under the masks, with every other sub-field zero.
C10_FlagsSubFields ==
  op = "sde" =>
    LET f == buf[offsetof_sde_flags + 1]
    IN  /\ \A i, j \in DOMAIN FlagsMasks :
             i # j => BitAnd(FlagsMasks[i], FlagsMasks[j]) = 0
        /\ BitOrAll(FlagsMasks) = 255
        /\ \A r \in sde_rdmc : BitAnd(r, flags_rdmc_mask) = r
        /\ BitAnd(f, flags_rdmc_mask) = params.rdmc
        /\ BitAnd(f, flags_ckod_mask) =
             (IF params.ckod THEN flags_ckod_mask ELSE 0)
        /\ BitAnd(f, flags_ceem_mask) = 0
        /\ BitAnd(f, flags_sdk_mask) = 0
        /\ BitAnd(f, flags_ckorp_mask) = 0
        /\ BitAnd(f, flags_ckorl_mask) = 0

C10_Witness ==
  /\ op = "sde" /\ pc = "sde_built"
  /\ params.rdmc = sde_rdmc_disabled /\ params.ckod
  /\ buf[offsetof_sde_flags + 1] = 52

----------------------------------------------------------------------------
(* The commands and the sense data *)

\* C6: a command is exchanged with the transport at most once and returns
\* in exactly one of three ways: success, a scsi_error that carries the
\* sense buffer of the failed exchange, or a transport error without sense
\* data; a check condition is never retried and never ends in success or in
\* an error without its sense data.
C6_OneExchangeOneOutcome ==
  op = "command" =>
    /\ exchanges <= 1
    /\ pc # "returned" => result.kind = "none"
    /\ pc = "returned" =>
         /\ exchanges = 1
         /\ result.kind \in {"success", "scsi_error", "transport_error"}
         /\ result.kind = "success" <=> transport.status = "good"
         /\ result.kind = "scsi_error" <=>
              transport.status = "check_condition"
         /\ result.kind = "transport_error" <=> transport.status = "failed"
         /\ result.kind = "scsi_error" =>
              /\ get_sense(result.error) = transport.sense
              /\ Len(get_sense(result.error)) = sizeof_sense_data
         /\ result.kind # "scsi_error" => DOMAIN result = {"kind"}

C6_Witness ==
  /\ op = "command" /\ pc = "returned" /\ command = "write_sde"
  /\ result.kind = "scsi_error"
  /\ get_sense(result.error) = SenseBuffer(5, 36, 0)

\* C8: rendering sense data never fails; sense keys 0 to 8 are rendered by
\* their labels and 9 to 15 as numbers; sense key 5 with ASC/ASCQ 0x24/0x00
\* renders "illegal request" and the numeric codes.
C8_SenseRenderingTotal ==
  /\ pc = "sense_given" => ENABLED PrintSenseData
  /\ pc = "rendered" =>
       LET key == sense[offsetof_sense_flags + 1] % 16
           asc == sense[offsetof_sense_additional_sense_code + 1]
           ascq == sense[offsetof_sense_additional_sense_qualifier + 1]
           labels == <<"no sense", "recovered error", "not ready",
                       "medium error", "hardware error", "illegal request",
                       "unit attention", "data protect", "blank check">>
       IN  /\ key \in 0..8 => rendering.key = <<labels[key + 1]>>
           /\ key \in 9..15 => rendering.key = Hex(key)
           /\ rendering.asc = Hex(asc) /\ rendering.ascq = Hex(ascq)
           /\ (key = 5 /\ asc = 36 /\ ascq = 0) =>
                rendering = [key |-> <<"illegal request">>,
                             asc |-> <<"2", "4">>, ascq |-> <<"0", "0">>]

C8_Witness ==
  /\ pc = "rendered"
  /\ sense[offsetof_sense_flags + 1] = 5
  /\ rendering = [key |-> <<"illegal request">>,
                  asc |-> <<"2", "4">>, ascq |-> <<"0", "0">>]

C8_WitnessNumeric ==
  pc = "rendered" /\ rendering.key = <<"0", "f">>

====
